---- MODULE Spec2Model ----
(***************************************************************************)
(* Model of stream.c (rzip): N byte streams multiplexed into one seekable  *)
(* file as chunks chained by back-patched next_head offsets.               *)
(*                                                                         *)
(* The file is a sequence of bytes; header fields are serialised exactly   *)
(* as write_u8/write_u16/write_u32 do.  The buffer unit 100*1024 is scaled *)
(* down to BufUnit bytes so that buffers fill and flush within the bounds. *)
(* The block codec (bzlib, an external library) is modelled by a           *)
(* run-length codec that honours the BZ2_bzBuffToBuff* contract: compress  *)
(* fails when the result does not fit the destination, decompress inverts  *)
(* compress and fails on malformed input or when the output does not fit.  *)
(* malloc(0) is taken to return a non-null pointer (glibc); allocation     *)
(* failure is an injected fault.                                           *)
(*                                                                         *)
(* A C function is a chain of steps over a value that carries its result   *)
(* (ret): OkX and Ok run the next step only when the steps so far          *)
(* succeeded, as the early returns of the code do.                         *)
(***************************************************************************)
EXTENDS Integers, Sequences, FiniteSets, TLC

\* ---------------------------------------------------------------- bounds
MaxStreams == 2      \* num_streams ranges over 1..MaxStreams
MaxLevel == 1        \* bzip_level ranges over 0..MaxLevel
BufUnit == 3         \* bytes standing for the 100*1024 of bufsize
MaxWriteLen == 4     \* len of one write_stream call
MaxWritten == 5      \* total bytes accepted by one write session
MaxReadLen == 3      \* len of one read_stream call
MaxForged == 2       \* c_len and u_len of a forged chunk header range over 0..MaxForged
WrapSpan == 40       \* cur_pos starts within WrapSpan of 2^32 in SpecWrap
MaxReads == 3        \* read_stream calls of a free read session

\* ------------------------------------------------------ program constants
CTYPE_NONE == 3
CTYPE_BZIP2 == 4
HeaderLen == 13
NextOff == 9
U16 == 65536

Min(a, b) == IF a < b THEN a ELSE b
Max(a, b) == IF a > b THEN a ELSE b
Rep(n, b) == [k \in 1..n |-> b]

\* A u32 (cur_pos, last_head, total_read, c_len, u_len) is held as the 32-bit
\* two's complement integer with the same bits: v itself below 2^31, v - 2^32
\* from 2^31 on.  Sums of such integers are then the sums modulo 2^32 of the
\* code (0xFFFFFFFB + 13 is -5 + 13 = 8), so storing one into a u32 changes
\* nothing.
u32(v) == v

\* unsigned order of two u32
ULeq(a, b) == IF (a < 0) = (b < 0) THEN a <= b ELSE b < 0

\* a u32 as a size_t (the argument of malloc, a destLen); sizes from 2^31 on
\* are all larger than any buffer of the model and are held as 2^31 - 1
Size(v) == IF v < 0 THEN 2147483647 ELSE v

\* ------------------------------------------------------------ wire codec
\* write_u16: low byte first
U16Bytes(v) == << v % 256, (v \div 256) % 256 >>
\* write_u32: low half first, each half through write_u16
U32Bytes(v) == U16Bytes(v % U16) \o U16Bytes((v \div U16) % U16)
\* read_u16: (p[1]<<8) | p[0]
U16Of(p) == p[2] * 256 + p[1]
\* read_u32: v2<<16 | v1
U32Of(p) ==
  (IF U16Of(SubSeq(p, 3, 4)) >= U16 \div 2 THEN U16Of(SubSeq(p, 3, 4)) - U16
   ELSE U16Of(SubSeq(p, 3, 4))) * U16 + U16Of(SubSeq(p, 1, 2))

\* The file behind the descriptor: x.data the bytes, x.pos the offset of the
\* descriptor, x.k the number of the next system call of the running
\* operation, x.ret the result so far, x.got the bytes of the last successful
\* read, x.hdr the header fields read so far, x.hi one more than the greatest
\* offset of a byte read.  flt is the number of the system call that fails
\* in this operation (0: none).
OkX(a, F(_)) == IF a.ret # 0 THEN a ELSE F(a)

Overwrite(data, pos, bytes) ==
  SubSeq(data, 1, Min(pos, Len(data)))
    \o (IF pos > Len(data) THEN Rep(pos - Len(data), 0) ELSE << >>)
    \o bytes
    \o SubSeq(data, pos + Len(bytes) + 1, Len(data))

write_buf(x, bytes, flt) ==
  IF x.k = flt
    THEN [x EXCEPT !.k = @ + 1, !.ret = -1]
    ELSE [x EXCEPT !.data = Overwrite(x.data, x.pos, bytes),
                   !.pos = x.pos + Len(bytes), !.k = @ + 1, !.ret = 0]

write_u8(x, v, flt) == write_buf(x, << v % 256 >>, flt)

write_u16(x, v, flt) == write_buf(x, U16Bytes(v), flt)

write_u32(x, v, flt) ==
  OkX(write_u16(x, v % U16, flt), LAMBDA a : write_u16(a, (v \div U16) % U16, flt))

\* read(2) returns the bytes up to end of file; fewer than len is a failure
read_buf(x, len, flt) ==
  IF x.k = flt
    THEN [x EXCEPT !.k = @ + 1, !.ret = -1]
    ELSE IF x.pos + len > Len(x.data)
      THEN [x EXCEPT !.pos = Max(x.pos, Len(x.data)), !.k = @ + 1, !.ret = -1,
                     !.hi = IF x.pos < Len(x.data) THEN Max(@, Len(x.data)) ELSE @]
      ELSE [x EXCEPT !.got = SubSeq(x.data, x.pos + 1, x.pos + len),
                     !.pos = x.pos + len, !.k = @ + 1, !.ret = 0,
                     !.hi = IF len > 0 THEN Max(@, x.pos + len) ELSE @]

read_u8(x, flt) == read_buf(x, 1, flt)

read_u16(x, flt) == read_buf(x, 2, flt)

\* the second half of read_u32: on success x.got holds the four bytes
read_u32_hi(lo, b) == IF b.ret # 0 THEN b ELSE [b EXCEPT !.got = lo \o b.got]

read_u32(x, flt) ==
  OkX(read_u16(x, flt), LAMBDA a : read_u32_hi(a.got, read_u16(a, flt)))

\* lseek(fd, initial_pos + pos, SEEK_SET)
seekto(x, initial_pos, pos, flt) ==
  IF x.k = flt
    THEN [x EXCEPT !.k = @ + 1, !.ret = -1]
    ELSE [x EXCEPT !.pos = initial_pos + pos, !.k = @ + 1, !.ret = 0]

\* a 13-byte chunk header as the four header writes lay it out
HeaderBytes(c_type, c_len, u_len, next_head) ==
  << c_type % 256 >> \o U32Bytes(c_len) \o U32Bytes(u_len) \o U32Bytes(next_head)

\* the four header writes of flush_buffer, chained by ||
write_header(x, c_type, c_len, u_len, flt) ==
  OkX(OkX(OkX(write_u8(x, c_type, flt),
              LAMBDA a : write_u32(a, c_len, flt)),
          LAMBDA a : write_u32(a, u_len, flt)),
      LAMBDA a : write_u32(a, 0, flt))

\* a header field read into x.hdr
PutU8(a) == IF a.ret # 0 THEN a ELSE [a EXCEPT !.hdr = Append(@, a.got[1])]
PutU32(a) == IF a.ret # 0 THEN a ELSE [a EXCEPT !.hdr = Append(@, U32Of(a.got))]

\* the four reads of a chunk header: x.hdr = << c_type, c_len, u_len, next_head >>
read_header(x, flt) ==
  OkX(OkX(OkX(PutU8(read_u8([x EXCEPT !.hdr = << >>], flt)),
              LAMBDA a : PutU32(read_u32(a, flt))),
          LAMBDA a : PutU32(read_u32(a, flt))),
      LAMBDA a : PutU32(read_u32(a, flt)))

\* ------------------------------------------------------------ block codec
\* Stand-in for bzlib: runs of equal bytes become (count, byte) pairs.
RECURSIVE RunLen(_, _)
RunLen(src, n) ==
  IF n < Len(src) /\ n < 255 /\ src[n + 1] = src[1] THEN RunLen(src, n + 1) ELSE n

RECURSIVE RLEnc(_)
RLEnc(src) ==
  IF src = << >> THEN << >>
  ELSE << RunLen(src, 1), src[1] >> \o RLEnc(SubSeq(src, RunLen(src, 1) + 1, Len(src)))

RECURSIVE RLDec(_)
RLDec(c) ==
  IF c = << >> THEN << >> ELSE Rep(c[1], c[2]) \o RLDec(SubSeq(c, 3, Len(c)))

RLValid(c) == Len(c) % 2 = 0 /\ \A j \in 1..Len(c) : (j % 2 = 1 => c[j] > 0)

\* the codec's answer for an output e and a destination of destLen bytes
Fit(e, destLen) ==
  IF Len(e) <= Size(destLen) THEN [ok |-> TRUE, out |-> e] ELSE [ok |-> FALSE, out |-> << >>]

\* BZ2_bzBuffToBuffCompress(dest, &destLen, src, srcLen, ...): BZ_OK and the
\* compressed bytes when they fit destLen, an error otherwise; codec = "bzerr"
\* is the library failing for a reason of its own.
BuffToBuffCompress(src, destLen, codec) ==
  IF codec = "bzerr" THEN [ok |-> FALSE, out |-> << >>] ELSE Fit(RLEnc(src), destLen)

\* BZ2_bzBuffToBuffDecompress(dest, &destLen, src, srcLen, 0, 0)
BuffToBuffDecompress(src, destLen, codec) ==
  IF codec = "bzerr" \/ ~RLValid(src) THEN [ok |-> FALSE, out |-> << >>]
  ELSE Fit(RLDec(src), destLen)

\* a u32 stored into an int (buflen, the len of read_buf): the same bits, so a
\* u32 from 2^31 on becomes negative
ToInt(v) == v

\* ------------------------------------------------------ compression gateway
\* The session world w: x the file and descriptor, si the struct stream_info
\* (si.s the array of struct stream), heap the blocks the session holds, loc
\* the locals of the running function, log the chunks emitted so far (in
\* emission order), out the bytes copied to the caller, ub whether a buffer
\* was read or written past its allocated size.
Ok(v, F(_)) == IF v.x.ret # 0 THEN v ELSE F(v)

\* A buffer is [cap, data]: cap the allocated size (-1 for a null pointer),
\* data the bytes stored in it.
NullBuf == [cap |-> -1, data |-> << >>]

\* the first n bytes read through a buffer pointer; bytes past the stored
\* data are whatever the heap holds (junk)
Take(buf, n, junk) ==
  IF n <= Len(buf.data) THEN SubSeq(buf.data, 1, n)
  ELSE buf.data \o Rep(n - Len(buf.data), junk)

\* the tail of compress_buf: r the codec's answer for a destination of dlen
compressed(w, i, dlen, r) ==
  IF ~r.ok THEN w
  ELSE [w EXCEPT !.loc.c_len = Len(r.out),
                 !.si.s[i].buf = [cap |-> Size(dlen), data |-> r.out],
                 !.loc.c_type = CTYPE_BZIP2]

\* compress_buf with a destination of buflen bytes instead of buflen - 1
compress_buf_full_dest(w, i, env) ==
  IF w.si.s[i].bzip_level = 0 THEN w
  ELSE IF env.codec = "nomem" THEN w
  ELSE compressed([w EXCEPT !.ub = @ \/ w.si.s[i].buflen > w.si.s[i].buf.cap],
                  i, u32(w.si.s[i].buflen),
                  BuffToBuffCompress(Take(w.si.s[i].buf, w.si.s[i].buflen, env.junk),
                                     u32(w.si.s[i].buflen), env.codec))

\* compress_buf(s, &c_type, &c_len) on stream i, c_type and c_len being the
\* locals of flush_buffer.  env.codec is "ok", "nomem" (the malloc of the
\* destination fails) or "bzerr".
compress_buf(w, i, env) ==
  IF w.si.s[i].bzip_level = 0 THEN w
  ELSE IF env.codec = "nomem" THEN w
  ELSE compressed([w EXCEPT !.ub = @ \/ w.si.s[i].buflen > w.si.s[i].buf.cap],
                  i, u32(w.si.s[i].buflen - 1),
                  BuffToBuffCompress(Take(w.si.s[i].buf, w.si.s[i].buflen, env.junk),
                                     u32(w.si.s[i].buflen - 1), env.codec))

\* the tail of decompress_buf: r the codec's answer; the compressed source is
\* freed on success only
decompressed(w, i, dlen, r) ==
  IF ~r.ok \/ Len(r.out) # w.si.s[i].buflen
    THEN [w EXCEPT !.si.s[i].buf = [cap |-> Size(dlen), data |-> r.out],
                   !.heap.leaked = @ + 1, !.x.ret = -1]
    ELSE [w EXCEPT !.si.s[i].buf = [cap |-> Size(dlen), data |-> r.out], !.x.ret = 0]

\* decompress_buf(s, c_len, c_type) on stream i
decompress_buf(w, i, c_len, c_type, env) ==
  IF c_type = CTYPE_NONE THEN [w EXCEPT !.x.ret = 0]
  ELSE IF env.codec = "nomem"
    THEN [w EXCEPT !.si.s[i].buf = NullBuf, !.heap.buf[i] = FALSE,
                   !.heap.leaked = @ + 1, !.x.ret = -1]
  ELSE decompressed(w, i, u32(w.si.s[i].buflen),
                    BuffToBuffDecompress(Take(w.si.s[i].buf, c_len, env.junk),
                                         u32(w.si.s[i].buflen), env.codec))

\* ---------------------------------------------------------- chunk linker
\* flush_buffer step by step; the locals c_type, c_len are w.loc, and
\* w.loc.pre remembers cur_pos at entry for the log
flush_seek_head(w, i, env) ==
  [w EXCEPT !.loc = [c_type |-> CTYPE_NONE, c_len |-> u32(w.si.s[i].buflen),
                     u_len |-> 0, pre |-> w.si.cur_pos],
            !.x = seekto(w.x, w.si.initial_pos, w.si.s[i].last_head, env.flt)]

flush_patch(w, i, env) ==
  [w EXCEPT !.x = write_u32(w.x, w.si.cur_pos, env.flt)]

\* flush_buffer without the assignment last_head = cur_pos + 9
flush_seek_cur_stale_head(w, i, env) ==
  [w EXCEPT !.x = seekto(w.x, w.si.initial_pos, w.si.cur_pos, env.flt)]

\* flush_buffer with last_head = cur_pos, the offset of the header itself
flush_seek_cur_header_off(w, i, env) ==
  [w EXCEPT !.si.s[i].last_head = u32(w.si.cur_pos),
            !.x = seekto(w.x, w.si.initial_pos, w.si.cur_pos, env.flt)]

flush_seek_cur(w, i, env) ==
  [w EXCEPT !.si.s[i].last_head = u32(w.si.cur_pos + NextOff),
            !.x = seekto(w.x, w.si.initial_pos, w.si.cur_pos, env.flt)]

flush_header(w, i, env) ==
  [w EXCEPT !.x = write_header(w.x, w.loc.c_type, w.loc.c_len,
                               u32(w.si.s[i].buflen), env.flt)]

\* cur_pos += 13 and cur_pos += c_len of flush_buffer: u32 sums, with no test
\* of the result
after_header(cur_pos) == u32(cur_pos + HeaderLen)
after_payload(cur_pos, c_len) == u32(cur_pos + c_len)

flush_payload(w, i, env) ==
  [w EXCEPT !.si.cur_pos = after_header(@),
            !.x = write_buf(w.x, Take(w.si.s[i].buf, w.loc.c_len, env.junk), env.flt),
            !.ub = @ \/ w.loc.c_len > w.si.s[i].buf.cap]

\* the end of flush_buffer without cur_pos += c_len
flush_realloc_no_advance(w, i, env) ==
  [w EXCEPT !.log = Append(@, [stream |-> i, off |-> w.loc.pre,
                               c_type |-> w.loc.c_type, c_len |-> w.loc.c_len,
                               u_len |-> u32(w.si.s[i].buflen),
                               start |-> w.x.pos - w.loc.c_len, end |-> w.x.pos]),
            !.si.s[i].buflen = 0,
            !.si.s[i].buf = IF w.x.k = env.flt THEN NullBuf
                            ELSE [cap |-> w.si.bufsize, data |-> << >>],
            !.heap.buf[i] = (w.x.k # env.flt),
            !.x.k = @ + 1,
            !.x.ret = IF w.x.k = env.flt THEN -1 ELSE 0]

\* the end of flush_buffer: the chunk is out, the buffer is replaced
flush_realloc(w, i, env) ==
  [w EXCEPT !.si.cur_pos = after_payload(@, w.loc.c_len),
            !.log = Append(@, [stream |-> i, off |-> w.loc.pre,
                               c_type |-> w.loc.c_type, c_len |-> w.loc.c_len,
                               u_len |-> u32(w.si.s[i].buflen),
                               start |-> w.x.pos - w.loc.c_len, end |-> w.x.pos]),
            !.si.s[i].buflen = 0,
            !.si.s[i].buf = IF w.x.k = env.flt THEN NullBuf
                            ELSE [cap |-> w.si.bufsize, data |-> << >>],
            !.heap.buf[i] = (w.x.k # env.flt),
            !.x.k = @ + 1,
            !.x.ret = IF w.x.k = env.flt THEN -1 ELSE 0]

\* flush_buffer(sinfo, stream); the result's x.ret is the return value
flush_buffer(w, i, env) ==
  Ok(Ok(Ok(Ok(Ok(flush_seek_head(w, i, env),
                 LAMBDA v : flush_patch(v, i, env)),
              LAMBDA v : flush_seek_cur(v, i, env)),
           LAMBDA v : flush_header(compress_buf(v, i, env), i, env)),
        LAMBDA v : flush_payload(v, i, env)),
     LAMBDA v : flush_realloc(v, i, env))

\* fill_buffer step by step
fill_seek(w, i, env) ==
  [w EXCEPT !.x = seekto(w.x, w.si.initial_pos, w.si.s[i].last_head, env.flt)]

fill_header(w, i, env) == [w EXCEPT !.x = read_header(w.x, env.flt)]

\* fill_buffer with the next_head it read dropped: last_head is left 0
fill_alloc_drops_next(w, i, env) ==
  [w EXCEPT !.loc = [c_type |-> w.x.hdr[1], c_len |-> w.x.hdr[2],
                     u_len |-> w.x.hdr[3], pre |-> 0],
            !.si.s[i].last_head = 0,
            !.si.total_read = u32(@ + HeaderLen),
            !.si.s[i].buf = IF w.x.k = env.flt THEN NullBuf
                            ELSE [cap |-> Size(w.x.hdr[3]), data |-> << >>],
            !.heap.buf[i] = (w.x.k # env.flt),
            !.x.k = @ + 1,
            !.x.ret = IF w.x.k = env.flt THEN -1 ELSE 0]

\* the header is read: last_head and total_read move on, the old buffer is
\* freed and one of u_len bytes allocated
fill_alloc(w, i, env) ==
  [w EXCEPT !.loc = [c_type |-> w.x.hdr[1], c_len |-> w.x.hdr[2],
                     u_len |-> w.x.hdr[3], pre |-> 0],
            !.si.s[i].last_head = w.x.hdr[4],
            !.si.total_read = u32(@ + HeaderLen),
            !.si.s[i].buf = IF w.x.k = env.flt THEN NullBuf
                            ELSE [cap |-> Size(w.x.hdr[3]), data |-> << >>],
            !.heap.buf[i] = (w.x.k # env.flt),
            !.x.k = @ + 1,
            !.x.ret = IF w.x.k = env.flt THEN -1 ELSE 0]

\* read_buf(fd, buf, c_len): x1 is the descriptor after the read; a short
\* read still stores the bytes up to end of file
fill_store(w, i, x1, env) ==
  [w EXCEPT !.x = x1,
            !.si.s[i].buf.data =
               IF x1.ret = 0 THEN x1.got
               ELSE IF w.x.k = env.flt THEN << >>
               ELSE SubSeq(w.x.data, w.x.pos + 1, Len(w.x.data)),
            !.ub = @ \/ (w.x.k # env.flt
                         /\ Min(w.loc.c_len, Max(0, Len(w.x.data) - w.x.pos))
                              > w.si.s[i].buf.cap)]

fill_read(w, i, env) == fill_store(w, i, read_buf(w.x, w.loc.c_len, env.flt), env)

fill_decompress(w, i, env) ==
  decompress_buf([w EXCEPT !.si.total_read = u32(@ + w.loc.c_len),
                           !.si.s[i].buflen = ToInt(w.loc.u_len),
                           !.si.s[i].bufp = 0],
                 i, w.loc.c_len, w.loc.c_type, env)

\* fill_buffer(sinfo, stream); the result's x.ret is the return value
fill_buffer(w, i, env) ==
  Ok(Ok(Ok(Ok(fill_seek(w, i, env),
              LAMBDA v : fill_header(v, i, env)),
           LAMBDA v : fill_alloc(v, i, env)),
        LAMBDA v : fill_read(v, i, env)),
     LAMBDA v : fill_decompress(v, i, env))

\* ------------------------------------------------------- per-stream buffer
\* the memcpy of write_stream: n bytes of p to buf + buflen
copy_in(w, i, p, n, env) ==
  [w EXCEPT !.si.s[i].buf.data = Take(w.si.s[i].buf, w.si.s[i].buflen, env.junk)
                                   \o SubSeq(p, 1, n),
            !.si.s[i].buflen = @ + n,
            !.ub = @ \/ (w.si.s[i].buflen + n > w.si.s[i].buf.cap)]

\* write_stream(ss, stream, p, len): p the bytes still to copy
RECURSIVE write_stream(_, _, _, _)
write_stream(w, i, p, env) ==
  IF p = << >> THEN [w EXCEPT !.x.ret = 0]
  ELSE LET n == Min(w.si.bufsize - w.si.s[i].buflen, Len(p))
       IN  IF w.si.s[i].buflen + n = w.si.bufsize
             THEN Ok(flush_buffer(copy_in(w, i, p, n, env), i, env),
                     LAMBDA v : write_stream(v, i, SubSeq(p, n + 1, Len(p)), env))
             ELSE write_stream(copy_in(w, i, p, n, env), i, SubSeq(p, n + 1, Len(p)), env)

\* the memcpy of read_stream: n bytes from buf + bufp to p
copy_out(w, i, n, env) ==
  [w EXCEPT !.out = @ \o SubSeq(Take(w.si.s[i].buf, w.si.s[i].bufp + n, env.junk),
                                w.si.s[i].bufp + 1, w.si.s[i].bufp + n),
            !.si.s[i].bufp = @ + n,
            !.ub = @ \/ (w.si.s[i].bufp + n > w.si.s[i].buf.cap)]

\* read_stream(ss, stream, p, len): w.out the bytes copied to p so far, ret
\* their number; w.hang is set when the while loop can make no progress
RECURSIVE read_stream(_, _, _, _, _)
read_stream(w, i, len, ret, env) ==
  IF len = 0 THEN [w EXCEPT !.x.ret = ret]
  ELSE LET n == Min(w.si.s[i].buflen - w.si.s[i].bufp, len)
       IN  IF n > 0 /\ (len = n \/ w.si.s[i].bufp + n # w.si.s[i].buflen)
             THEN read_stream(copy_out(w, i, n, env), i, len - n, ret + n, env)
           ELSE IF n > 0
             THEN Ok(fill_buffer(copy_out(w, i, n, env), i, env),
                     LAMBDA v : IF v.si.s[i].bufp = v.si.s[i].buflen
                                  THEN [v EXCEPT !.x.ret = ret + n]
                                  ELSE read_stream(v, i, len - n, ret + n, env))
           ELSE IF w.si.s[i].bufp = w.si.s[i].buflen
             THEN Ok(fill_buffer(w, i, env),
                     LAMBDA v : IF v.si.s[i].bufp = v.si.s[i].buflen
                                  THEN [v EXCEPT !.x.ret = ret]
                                  ELSE read_stream(v, i, len, ret, env))
           ELSE [w EXCEPT !.hang = TRUE, !.x.ret = ret]

\* ------------------------------------------------------ session lifecycle
NoSession ==
  [num_streams |-> 0, bufsize |-> 0, cur_pos |-> 0, initial_pos |-> 0,
   total_read |-> 0, s |-> << >>]

NoHeap == [sinfo |-> FALSE, s |-> FALSE, buf |-> << >>, leaked |-> 0]

NoLoc == [c_type |-> 0, c_len |-> 0, u_len |-> 0, pre |-> 0]

\* bufsize of open_stream_out, in units of BufUnit for 100*1024
BufSize(bzip_level) == IF bzip_level = 0 THEN BufUnit ELSE BufUnit * bzip_level

\* the loop of open_stream_out that writes the initial headers; the results
\* of the writes are not looked at
RECURSIVE initial_headers(_, _, _)
initial_headers(w, i, flt) ==
  IF i = w.si.num_streams THEN w
  ELSE initial_headers(
         [w EXCEPT !.si.s[i].last_head = u32(w.si.cur_pos + NextOff),
                   !.x = write_u32(write_u32(write_u32(write_u8(w.x, CTYPE_NONE, flt),
                                                       0, flt),
                                             0, flt),
                                   0, flt),
                   !.si.cur_pos = u32(w.si.cur_pos + HeaderLen)],
         i + 1, flt)

\* open_stream_out(f, n, bzip_level); env.mem names the allocation that fails
\* ("ok": none), and then the result is NULL (x.ret = -1); a failed buffer
\* allocation leaves the stream array unfreed
open_stream_out(w, n, bzip_level, env) ==
  IF env.mem = "buf" THEN [w EXCEPT !.heap.leaked = @ + 1, !.x.ret = -1]
  ELSE IF env.mem # "ok" THEN [w EXCEPT !.x.ret = -1]
  ELSE [initial_headers(
          [w EXCEPT !.si = [num_streams |-> n, bufsize |-> BufSize(bzip_level),
                            cur_pos |-> 0, initial_pos |-> w.x.pos, total_read |-> 0,
                            s |-> [j \in 0..(n - 1) |->
                                     [last_head |-> 0,
                                      buf |-> [cap |-> BufSize(bzip_level), data |-> << >>],
                                      buflen |-> 0, bufp |-> 0,
                                      bzip_level |-> bzip_level]]],
                    !.heap = [sinfo |-> TRUE, s |-> TRUE,
                              buf |-> [j \in 0..(n - 1) |-> TRUE], leaked |-> 0]],
          0, env.flt)
        EXCEPT !.x.ret = 0]

\* close_stream_out flushing every stream, its buffer empty or not
close_flush_always(w, i, env) == flush_buffer(w, i, env)

\* the body of the loop of close_stream_out: a stream that holds bytes is
\* flushed
close_flush(w, i, env) ==
  IF w.si.s[i].buflen # 0 THEN flush_buffer(w, i, env) ELSE [w EXCEPT !.x.ret = 0]

\* close_stream_out(ss), from stream i on
RECURSIVE close_stream_out(_, _, _)
close_stream_out(w, i, env) ==
  IF i = w.si.num_streams
    THEN [w EXCEPT !.heap.s = FALSE, !.heap.sinfo = FALSE, !.x.ret = 0]
    ELSE Ok(close_flush(w, i, env),
            LAMBDA v : close_stream_out([v EXCEPT !.heap.buf[i] = FALSE], i + 1, env))

\* the validation of an initial header with the tests of c_len and u_len
\* left out
bad_header_type_only(hdr) == hdr[1] # CTYPE_NONE

\* the three tests open_stream_in makes of an initial header
bad_header(hdr) == hdr[1] # CTYPE_NONE \/ hdr[2] # 0 \/ hdr[3] # 0

\* the close workaround without initial_pos += 13
workaround_same_pos(w, i) ==
  [w EXCEPT !.si.s[i].last_head = w.x.hdr[4], !.skips = @ + 1]

\* the close workaround of open_stream_in: the header just read is skipped
workaround(w, i) ==
  [w EXCEPT !.si.s[i].last_head = w.x.hdr[4],
            !.si.initial_pos = @ + HeaderLen,
            !.skips = @ + 1]

\* the for loop of open_stream_in from stream i on, with its goto again;
\* w.skips counts the applications of the close workaround
RECURSIVE open_in_loop(_, _, _)
open_in_loop(w, i, flt) ==
  IF i = w.si.num_streams THEN [w EXCEPT !.x.ret = 0]
  ELSE Ok([w EXCEPT !.x = read_header(w.x, flt)],
          LAMBDA v :
            IF v.x.hdr[1] = CTYPE_NONE /\ v.x.hdr[2] = 0 /\ v.x.hdr[3] = 0
               /\ v.x.hdr[4] = 0 /\ i = 0
              THEN open_in_loop(workaround(v, i), i, flt)
            ELSE IF bad_header(v.x.hdr)
              THEN [v EXCEPT !.si.s[i].last_head = v.x.hdr[4],
                             !.si.total_read = u32(@ + HeaderLen),
                             !.x.ret = -1]
            ELSE open_in_loop([v EXCEPT !.si.s[i].last_head = v.x.hdr[4],
                                        !.si.total_read = u32(@ + HeaderLen)],
                              i + 1, flt))

\* the label failed of open_stream_in
open_in_failed(w) ==
  IF w.x.ret = 0 THEN w ELSE [w EXCEPT !.heap.s = FALSE, !.heap.sinfo = FALSE]

\* open_stream_in(f, n)
open_stream_in(w, n, env) ==
  IF env.mem # "ok" THEN [w EXCEPT !.x.ret = -1]
  ELSE open_in_failed(open_in_loop(
         [w EXCEPT !.si = [num_streams |-> n, bufsize |-> 0, cur_pos |-> 0,
                           initial_pos |-> w.x.pos, total_read |-> 0,
                           s |-> [j \in 0..(n - 1) |->
                                    [last_head |-> 0, buf |-> NullBuf, buflen |-> 0,
                                     bufp |-> 0, bzip_level |-> 0]]],
                   !.skips = 0,
                   !.heap = [sinfo |-> TRUE, s |-> TRUE,
                             buf |-> [j \in 0..(n - 1) |-> FALSE], leaked |-> 0]],
         0, env.flt))

\* the frees of close_stream_in
close_in_free(w) ==
  IF w.x.ret # 0 THEN w
  ELSE [w EXCEPT !.heap = [sinfo |-> FALSE, s |-> FALSE,
                           buf |-> [j \in DOMAIN w.heap.buf |-> FALSE],
                           leaked |-> w.heap.leaked]]

\* close_stream_in(ss)
close_stream_in(w, env) ==
  close_in_free([w EXCEPT !.x = seekto(w.x, w.si.initial_pos, w.si.total_read, env.flt)])

\* ------------------------------------------------------------ the callers
VARIABLES
  pc,       \* "start", "out" (write session), "closed", "in" (read session), "done"
  w,        \* the session world
  cfg,      \* n, level: the arguments of open_stream_out; start: the file offset
            \* at which the stream set begins; at: where the reader was opened
  written,  \* per stream, the bytes accepted by write_stream
  got,      \* per stream, the bytes delivered by read_stream
  req,      \* per stream, the number of bytes asked of read_stream
  last,     \* the last public operation and its result
  faulted,  \* an injected fault (system call or allocation failure) has fired
  reads     \* read_stream calls made

vars == << pc, w, cfg, written, got, req, last, faulted, reads >>

\* what may precede the stream set in the file: nothing, 13 zero bytes, or
\* one more initial header as a legacy writer left it
Prefixes == { << >>, Rep(HeaderLen, 0), HeaderBytes(CTYPE_NONE, 0, 0, 0) }

Streams == 0..(cfg.n - 1)
\* The system call that fails in an operation, one of each kind (0: none).
\* In flush_buffer: 1 the seek to last_head, 3 the second half of the
\* back-patch, 4 the seek to cur_pos, 6 the write of c_len, 12 the write of
\* the payload, 13 the malloc of the new buffer; in open_stream_out 1 and 6
\* are header writes.  In fill_buffer: 1 the seek, 2 a header read, 9 the
\* malloc, 10 the read of the payload; in open_stream_in 1 is a header read.
FlushFaults == {0, 1, 3, 4, 6, 12, 13}
FillFaults == {0, 1, 2, 9, 10}
Codecs == {"ok", "nomem", "bzerr"}
NoFault == [flt |-> 0, codec |-> "ok", mem |-> "ok", junk |-> 0]

\* the k-th byte (from 0) a caller writes to stream i: runs of four equal bytes
StreamByte(i, k) == 16 * (i + 1) + ((k \div 4) % 4)
Data(i, from, len) == [j \in 1..len |-> StreamByte(i, from + j - 1)]

RECURSIVE SumLen(_, _)
SumLen(f, n) == IF n = 0 THEN 0 ELSE Len(f[n - 1]) + SumLen(f, n - 1)

\* between operations the call counter, the scratch of the wire codec, the
\* locals and the caller's destination buffer are reset
Rest(v) ==
  [v EXCEPT !.x.k = 1, !.x.got = << >>, !.x.hdr = << >>, !.x.ret = 0,
            !.out = << >>, !.loc = NoLoc]

Fired(v, env) == env.flt # 0 /\ v.x.k > env.flt

Op(op, i, len, ret, b, nflush) ==
  [op |-> op, i |-> i, len |-> len, ret |-> ret, b |-> b, nflush |-> nflush]

Init ==
  /\ pc = "start"
  /\ \E prefix \in Prefixes :
       /\ w = [x |-> [data |-> prefix, pos |-> Len(prefix), k |-> 1, ret |-> 0,
                      got |-> << >>, hdr |-> << >>, hi |-> 0],
               si |-> NoSession, heap |-> NoHeap, loc |-> NoLoc, log |-> << >>,
               ub |-> FALSE, skips |-> 0, out |-> << >>, hang |-> FALSE]
       /\ cfg = [n |-> 0, level |-> 0, start |-> Len(prefix), at |-> 0]
  /\ written = << >>
  /\ got = << >>
  /\ req = << >>
  /\ last = Op("none", 0, 0, 0, 0, 0)
  /\ faulted = FALSE
  /\ reads = 0

OpenOut ==
  /\ pc = "start"
  /\ \E n \in 1..MaxStreams, level \in 0..MaxLevel, flt \in {0, 1, 6},
        mem \in {"ok", "sinfo", "s", "buf"} :
       /\ (mem # "ok" => flt = 0)
       /\ \E v \in {open_stream_out(w, n, level, [NoFault EXCEPT !.flt = flt, !.mem = mem])} :
            /\ w' = Rest(v)
            /\ faulted' = (mem # "ok" \/ (flt # 0 /\ v.x.k > flt))
            /\ pc' = IF v.x.ret = 0 THEN "out" ELSE "done"
            /\ last' = Op("open_out", 0, 0, v.x.ret, 0, 0)
       /\ cfg' = [cfg EXCEPT !.n = n, !.level = level]
       /\ written' = [j \in 0..(n - 1) |-> << >>]
  /\ UNCHANGED << got, req, reads >>

WriteStream ==
  /\ pc = "out"
  /\ ~faulted
  /\ \E i \in Streams, len \in 1..MaxWriteLen, flt \in FlushFaults,
        codec \in (IF cfg.level = 0 THEN {"ok"} ELSE Codecs) :
       /\ SumLen(written, cfg.n) + len <= MaxWritten
       /\ \E v \in {write_stream(w, i, Data(i, Len(written[i]), len),
                                 [NoFault EXCEPT !.flt = flt, !.codec = codec])} :
            /\ w' = Rest(v)
            /\ written' = IF v.x.ret = 0
                            THEN [written EXCEPT ![i] = @ \o Data(i, Len(@), len)]
                            ELSE written
            /\ faulted' = (flt # 0 /\ v.x.k > flt)
            /\ last' = Op("write_stream", i, len, v.x.ret, w.si.s[i].buflen,
                          Len(v.log) - Len(w.log))
  /\ UNCHANGED << pc, cfg, got, req, reads >>

CloseOut ==
  /\ pc = "out"
  /\ \E flt \in FlushFaults, codec \in (IF cfg.level = 0 THEN {"ok"} ELSE Codecs),
        junk \in (IF faulted THEN {0, 255} ELSE {0}) :
       \E v \in {close_stream_out(w, 0, [NoFault EXCEPT !.flt = flt, !.codec = codec,
                                                       !.junk = junk])} :
         /\ w' = Rest(v)
         /\ faulted' = (faulted \/ (flt # 0 /\ v.x.k > flt))
         /\ pc' = IF v.x.ret = 0 /\ ~faulted' THEN "closed" ELSE "done"
         /\ last' = Op("close_out", 0, 0, v.x.ret, 0, Len(v.log) - Len(w.log))
  /\ UNCHANGED << cfg, written, got, req, reads >>

\* the caller seeks back to where the stream set (or what precedes it)
\* begins and opens it for reading
OpenIn ==
  /\ pc = "closed"
  /\ \E at \in {0, cfg.start}, flt \in {0, 1}, mem \in {"ok", "sinfo", "s"} :
       /\ (mem # "ok" => flt = 0)
       /\ \E v \in {open_stream_in([w EXCEPT !.x.pos = at, !.x.hi = 0], cfg.n,
                                   [NoFault EXCEPT !.flt = flt, !.mem = mem])} :
            /\ w' = Rest(v)
            /\ faulted' = (mem # "ok" \/ (flt # 0 /\ v.x.k > flt))
            /\ pc' = IF v.x.ret = 0 THEN "in" ELSE "done"
            /\ last' = Op("open_in", 0, 0, v.x.ret, 0, 0)
       /\ cfg' = [cfg EXCEPT !.at = at]
  /\ got' = [j \in Streams |-> << >>]
  /\ req' = [j \in Streams |-> 0]
  /\ UNCHANGED << written, reads >>

ReadStream ==
  /\ pc = "in"
  /\ ~faulted
  /\ reads < MaxReads
  /\ \E i \in Streams, len \in 1..MaxReadLen, flt \in FillFaults, codec \in Codecs :
       /\ (codec # "ok" => flt = 0)
       /\ \E v \in {read_stream(w, i, len, 0,
                                [NoFault EXCEPT !.flt = flt, !.codec = codec])} :
            /\ w' = Rest(v)
            /\ got' = IF v.x.ret >= 0 THEN [got EXCEPT ![i] = @ \o v.out] ELSE got
            /\ faulted' = ((flt # 0 /\ v.x.k > flt) \/ (codec # "ok" /\ v.x.ret = -1))
            /\ last' = Op("read_stream", i, len, v.x.ret, 0, 0)
       /\ req' = [req EXCEPT ![i] = @ + len]
  /\ reads' = reads + 1
  /\ UNCHANGED << pc, cfg, written >>

CloseIn ==
  /\ pc = "in"
  /\ \E flt \in {0, 1} :
       \E v \in {close_stream_in(w, [NoFault EXCEPT !.flt = flt])} :
         /\ w' = Rest(v)
         /\ faulted' = (faulted \/ (flt # 0 /\ v.x.k > flt))
         /\ last' = Op("close_in", 0, 0, v.x.ret, 0, 0)
  /\ pc' = "done"
  /\ UNCHANGED << cfg, written, got, req, reads >>

Next == OpenOut \/ WriteStream \/ CloseOut \/ OpenIn \/ ReadStream \/ CloseIn

Spec == Init /\ [][Next]_vars

\* the write session alone: the file is never opened for reading
NextOut == OpenOut \/ WriteStream \/ CloseOut
SpecOut == Init /\ [][NextOut]_vars

\* Files that no writer of this module produced.  The initial headers: each
\* stream's is (3, 0, 0, next_head) with next_head 0 or the offset 13 n of the
\* one chunk, but for at most one stream (bad) whose header breaks one of the
\* three fields open_stream_in validates.
RECURSIVE Concat(_, _)
Concat(f, n) == IF n = 0 THEN << >> ELSE Concat(f, n - 1) \o f[n - 1]

BadHeader(kind, next_head) ==
  IF kind = 1 THEN HeaderBytes(CTYPE_BZIP2, 0, 0, next_head)
  ELSE IF kind = 2 THEN HeaderBytes(CTYPE_NONE, 1, 0, next_head)
  ELSE HeaderBytes(CTYPE_NONE, 0, 1, next_head)

ForgedHeads(n) ==
  { Concat([i \in 0..(n - 1) |->
              IF i = bad THEN BadHeader(kind, nh[i])
              ELSE HeaderBytes(CTYPE_NONE, 0, 0, nh[i])], n) :
      bad \in -1..(n - 1), kind \in 1..3,
      nh \in [0..(n - 1) -> {0, HeaderLen * n}] }

\* the payloads: empty, one byte, and the run-length code of two equal bytes
ForgedPayloads == { << >>, << 7 >>, << 2, 7 >> }

\* what follows the initial headers: nothing, or one chunk whose header holds
\* any c_type, c_len and u_len (0xFFFFFFFF among them) and whose payload need
\* not have the length the header states
ForgedBodies ==
  { << >> } \cup
  { HeaderBytes(c_type, c_len, u_len, 0) \o payload :
      c_type \in {CTYPE_NONE, CTYPE_BZIP2}, c_len \in 0..MaxForged,
      u_len \in -1..MaxForged, payload \in ForgedPayloads }

\* the caller has a file from elsewhere, possibly cut short, and is about to
\* open it for reading as n streams
Forge ==
  /\ pc = "start"
  /\ w.x.data = << >>
  /\ \E n \in 1..MaxStreams, cut \in {0, 5} :
       \E heads \in ForgedHeads(n), body \in ForgedBodies :
         /\ w' = [w EXCEPT !.x.data = SubSeq(heads \o body, 1,
                                             Len(heads \o body) - cut),
                           !.x.pos = Len(heads \o body) - cut]
         /\ cfg' = [cfg EXCEPT !.n = n]
         /\ written' = [j \in 0..(n - 1) |-> << >>]
  /\ pc' = "closed"
  /\ last' = Op("forge", 0, 0, 0, 0, 0)
  /\ UNCHANGED << got, req, faulted, reads >>

\* a forged file is opened
NextForgedOpen == Forge \/ OpenIn
SpecForgedOpen == Init /\ [][NextForgedOpen]_vars

\* a forged file is opened and read
NextForged == Forge \/ OpenIn \/ ReadStream \/ CloseIn
SpecForged == Init /\ [][NextForged]_vars

\* A write session that has appended close to 4 GiB: cur_pos is within
\* WrapSpan of 2^32 (the file itself, too long to hold, is left as
\* open_stream_out wrote it and is not looked at).
InitWrap ==
  /\ pc = "out"
  /\ \E near \in 1..WrapSpan, level \in 0..MaxLevel :
       /\ w = [Rest(open_stream_out(
                      [x |-> [data |-> << >>, pos |-> 0, k |-> 1, ret |-> 0,
                              got |-> << >>, hdr |-> << >>, hi |-> 0],
                       si |-> NoSession, heap |-> NoHeap, loc |-> NoLoc,
                       log |-> << >>, ub |-> FALSE, skips |-> 0, out |-> << >>,
                       hang |-> FALSE],
                      1, level, NoFault))
                EXCEPT !.si.cur_pos = 0 - near]
       /\ cfg = [n |-> 1, level |-> level, start |-> 0, at |-> 0]
  /\ written = [j \in {0} |-> << >>]
  /\ got = << >>
  /\ req = << >>
  /\ last = Op("open_out", 0, 0, 0, 0, 0)
  /\ faulted = FALSE
  /\ reads = 0

\* the offsets of a flush_buffer in which every system call succeeds: a chunk
\* of c_len payload bytes is appended and flush_buffer returns 0
FlushAdvance ==
  /\ pc = "out"
  /\ w.si.cur_pos < 0
  /\ \E c_len \in 1..w.si.bufsize :
       /\ w' = [w EXCEPT !.si.s[0].last_head = u32(w.si.cur_pos + NextOff),
                         !.si.cur_pos = after_payload(after_header(@), c_len)]
       /\ last' = Op("flush", 0, c_len, 0, 0, 1)
  /\ UNCHANGED << pc, cfg, written, got, req, faulted, reads >>

NextWrap == FlushAdvance
SpecWrap == InitWrap /\ [][NextWrap]_vars

\* the write session and the opening of its file for reading
NextOpen == OpenOut \/ WriteStream \/ CloseOut \/ OpenIn
SpecOpen == Init /\ [][NextOpen]_vars

\* ---------------------------------------------------------------- claims
\* the reader was opened at the offset where the writer was opened
SameStart == cfg.at = cfg.start

IsPrefix(a, b) == Len(a) <= Len(b) /\ SubSeq(b, 1, Len(a)) = a

\* the chunks of stream i, in emission order
ChunksOf(i) == SelectSeq(w.log, LAMBDA e : e.stream = i)

\* the offset of the first chunk of stream i, 0 when it has none
FirstOff(i) == IF ChunksOf(i) = << >> THEN 0 ELSE ChunksOf(i)[1].off

\* the u32 stored in the file at absolute offset pos
FileU32(pos) == U32Of(SubSeq(w.x.data, pos + 1, pos + 4))

\* C1: round trip.  A reader opened where the writer was opened gets a
\* session, and as long as no more is asked of a stream than was written to
\* it, every read_stream returns the requested length and the bytes delivered
\* are the bytes written, in order.
C1_RoundTrip ==
  /\ (last.op = "open_in" /\ SameStart /\ ~faulted) => pc = "in"
  /\ (last.op = "read_stream" /\ SameStart /\ ~faulted) =>
       \A i \in Streams :
         req[i] <= Len(written[i]) =>
           /\ got[i] = SubSeq(written[i], 1, req[i])
           /\ (i = last.i => last.ret = last.len)

\* C2: after a successful write session open_in at the same offset returns a
\* session in which last_head of each stream is the offset of its first
\* chunk, and a first read on a stream that was written nothing returns 0.
C2_ReopenAfterClose ==
  /\ (last.op = "open_in" /\ SameStart /\ ~faulted) =>
       /\ pc = "in"
       /\ \A i \in Streams : w.si.s[i].last_head = FirstOff(i)
  /\ (last.op = "read_stream" /\ SameStart /\ ~faulted /\ reads = 1
        /\ written[last.i] = << >>) => last.ret = 0

\* the u32 at absolute file offset pos, -1 when the file ends before it
U32At(pos) == IF pos + 4 <= Len(w.x.data) THEN FileU32(pos) ELSE -1

\* the header offsets reached by following next_head from the field at
\* offset p (both relative to the start of the stream set) until it is 0;
\* -1 closes the walk when the file ends or fuel runs out
RECURSIVE Chain(_, _)
Chain(p, fuel) ==
  IF fuel = 0 THEN << -1 >>
  ELSE IF U32At(cfg.start + p) = 0 THEN << >>
  ELSE IF U32At(cfg.start + p) < 0 THEN << -1 >>
  ELSE << U32At(cfg.start + p) >> \o Chain(U32At(cfg.start + p) + NextOff, fuel - 1)

Offsets(chunks) == [k \in 1..Len(chunks) |-> chunks[k].off]

\* C3: header back-patch.  After a write session that was closed without
\* error, following next_head from the initial header of stream i visits the
\* headers of exactly the chunks flushed for stream i, in the order of their
\* flushes, and ends at a header whose next_head is 0.
C3_BackPatch ==
  pc = "closed" =>
    \A i \in Streams :
      Chain(HeaderLen * i + NextOff, Len(w.log) + 1) = Offsets(ChunksOf(i))

\* two streams, three chunks, two of them of one stream
C3_Witness ==
  /\ pc = "closed" /\ cfg.n = 2 /\ Len(w.log) >= 3
  /\ ChunksOf(0) # << >> /\ ChunksOf(1) # << >>
  /\ Chain(NextOff, Len(w.log) + 1) = Offsets(ChunksOf(0))

\* what precedes the stream set in the file
ZeroPrefix ==
  cfg.start = HeaderLen /\ SubSeq(w.x.data, 1, HeaderLen) = Rep(HeaderLen, 0)
HeaderPrefix ==
  cfg.start = HeaderLen
  /\ SubSeq(w.x.data, 1, HeaderLen) = HeaderBytes(CTYPE_NONE, 0, 0, 0)

\* the session open_stream_in returns after skipping one header
SkippedOne ==
  /\ pc = "in"
  /\ w.si.initial_pos = HeaderLen
  /\ w.si.total_read = HeaderLen * cfg.n

Pending == {i \in Streams : w.si.s[i].buflen # 0}

\* the chunks a step appends to the log
Emitted == SubSeq(w'.log, Len(w.log) + 1, Len(w'.log))

RECURSIVE Ascending(_)
Ascending(S) ==
  IF S = {} THEN << >>
  ELSE LET m == CHOOSE a \in S : \A b \in S : a <= b
       IN  << m >> \o Ascending(S \ {m})

\* C6: flush count.  A write_stream of len bytes to a stream that holds b
\* bytes emits (b + len) div bufsize chunks, all of that stream, and leaves
\* (b + len) mod bufsize bytes buffered; close_stream_out emits one chunk for
\* each stream that holds bytes, in stream order, and none for the others.
C6_FlushCount ==
  [][/\ (pc = "out" /\ last'.op = "write_stream" /\ last'.ret = 0) =>
          /\ Len(Emitted) = (w.si.s[last'.i].buflen + last'.len) \div w.si.bufsize
          /\ \A k \in 1..Len(Emitted) : Emitted[k].stream = last'.i
          /\ w'.si.s[last'.i].buflen
               = (w.si.s[last'.i].buflen + last'.len) % w.si.bufsize
     /\ (pc = "out" /\ pc' = "closed") =>
          [k \in 1..Len(Emitted) |-> Emitted[k].stream] = Ascending(Pending)
    ]_vars

\* a whole buffer was written and flushed, and the close emitted nothing
C6_Witness ==
  /\ pc = "closed" /\ last.nflush = 0
  /\ Len(w.log) = 1 /\ w.log[1].u_len = w.si.bufsize
  /\ Len(written[w.log[1].stream]) = w.si.bufsize

\* the header fields c_type, c_len, u_len at absolute file offset pos
HeaderAt(pos) ==
  IF pos + HeaderLen <= Len(w.x.data)
    THEN << w.x.data[pos + 1], U32At(pos + 1), U32At(pos + 5) >>
    ELSE << >>

RECURSIVE SumULen(_)
SumULen(chunks) ==
  IF chunks = << >> THEN 0 ELSE Head(chunks).u_len + SumULen(Tail(chunks))

\* C7: compression fallback.  Every chunk header emitted has c_type 3 with
\* c_len = u_len or c_type 4 with c_len <= u_len - 1, u_len being the number
\* of bytes that were buffered and c_len the number of payload bytes that
\* follow; at level 0 every chunk has c_type 3; and a flush in which no
\* system call fails succeeds whatever the codec answers.
C7_ChunkHeader ==
  /\ (pc \in {"out", "closed"} /\ ~faulted) =>
       /\ \A k \in 1..Len(w.log) :
            /\ HeaderAt(cfg.start + w.log[k].off)
                 = << w.log[k].c_type, w.log[k].c_len, w.log[k].u_len >>
            /\ w.log[k].end = cfg.start + w.log[k].off + HeaderLen + w.log[k].c_len
            /\ \/ w.log[k].c_type = CTYPE_NONE /\ w.log[k].c_len = w.log[k].u_len
               \/ w.log[k].c_type = CTYPE_BZIP2 /\ w.log[k].c_len <= w.log[k].u_len - 1
            /\ cfg.level = 0 => w.log[k].c_type = CTYPE_NONE
       /\ \A i \in Streams :
            SumULen(ChunksOf(i)) + (IF pc = "out" THEN w.si.s[i].buflen ELSE 0)
              = Len(written[i])
  /\ (last.op \in {"write_stream", "close_out"} /\ ~faulted) => last.ret = 0

\* at a level other than 0, one chunk went out compressed and one raw
C7_Witness ==
  /\ pc = "closed" /\ cfg.level # 0
  /\ \E j, k \in 1..Len(w.log) :
       /\ w.log[j].c_type = CTYPE_BZIP2 /\ w.log[j].c_len < w.log[j].u_len
       /\ w.log[k].c_type = CTYPE_NONE /\ w.log[k].u_len > 1

\* every block of the session is freed
Released ==
  /\ ~w.heap.sinfo
  /\ ~w.heap.s
  /\ \A i \in DOMAIN w.heap.buf : ~w.heap.buf[i]
  /\ w.heap.leaked = 0

\* C8: after close_stream_out or close_stream_in has returned, whatever it
\* returned, every buffer of the session, the stream array and the session
\* record are freed.
C8_CloseReleases ==
  last.op \in {"close_out", "close_in"} => Released

\* C9: after a close_stream_in that returned 0 the descriptor is at
\* initial_pos + total_read, and that is one more than the greatest offset
\* of a byte the session read.
C9_CloseInPosition ==
  (last.op = "close_in" /\ last.ret = 0 /\ ~faulted) =>
    /\ w.x.pos = w.si.initial_pos + w.si.total_read
    /\ w.x.pos = w.x.hi

\* the streams a step of the write session may flush: that of a write_stream,
\* those that hold bytes at a close_stream_out
Flushing == IF last'.op = "write_stream" THEN {last'.i} ELSE Pending

\* the last chunk of its stream in the log
LastOfStream(k) == \A j \in (k + 1)..Len(w.log) : w.log[j].stream # w.log[k].stream

\* C10: chunks lie in the file in the order of their flushes: each header
\* offset is greater than those of all earlier chunks and at least 13 N, and
\* a step of the write session changes no byte of a chunk already emitted
\* other than the next_head field of the last header of the stream it flushes.
C10_ChunkOrder ==
  [][pc = "out" =>
       /\ \A k \in 1..Len(w'.log) :
            /\ w'.log[k].off >= HeaderLen * cfg.n
            /\ \A j \in 1..(k - 1) : w'.log[j].off < w'.log[k].off
       /\ \A k \in 1..Len(w.log) :
            \A q \in (cfg.start + w.log[k].off)..(w.log[k].end - 1) :
              w'.x.data[q + 1] # w.x.data[q + 1] =>
                /\ LastOfStream(k)
                /\ q - (cfg.start + w.log[k].off) \in NextOff..(HeaderLen - 1)
                /\ w.log[k].stream \in Flushing
    ]_vars

\* stream 1 flushed first, then stream 0, then stream 1 again
C10_Witness ==
  /\ pc = "closed" /\ cfg.n = 2 /\ Len(w.log) = 3
  /\ w.log[1].stream = 1 /\ w.log[2].stream = 0 /\ w.log[3].stream = 1
  /\ w.log[1].off < w.log[2].off /\ w.log[2].off < w.log[3].off

\* C11: in a write session opened with the descriptor at the end of the
\* file, after open_stream_out and after each write_stream that returned 0,
\* cur_pos is the length of the file less initial_pos.
C11_CurPosIsLength ==
  (pc = "out" /\ last.op \in {"open_out", "write_stream"} /\ last.ret = 0) =>
    w.si.cur_pos = Len(w.x.data) - w.si.initial_pos

\* C15: on a file written by a successful write session and opened where it
\* was written, the bytes read_stream has delivered for stream i are always a
\* prefix of the bytes written to stream i: no byte of another stream, no
\* byte twice, and nothing more once the stream has come to its end.
C15_StickyEnd ==
  (pc = "in" /\ SameStart) => \A i \in Streams : IsPrefix(got[i], written[i])

\* C16: open_stream_in applies the close workaround at most once; when the
\* header after the skipped one is again (3, 0, 0, 0) it is taken as the
\* header of stream 0 and initial_pos stays advanced by 13.
C16_WorkaroundOnce ==
  /\ last.op = "open_in" => w.skips <= 1
  /\ (last.op = "open_in" /\ cfg.at = 0 /\ HeaderPrefix /\ ~faulted
        /\ \A i \in Streams : ChunksOf(i) = << >>) =>
       pc = "in" /\ w.si.initial_pos = HeaderLen

\* the offset of the last header written for stream i: that of its last
\* chunk, or of its initial header
LastHeader(i) ==
  IF ChunksOf(i) = << >> THEN HeaderLen * i
  ELSE ChunksOf(i)[Len(ChunksOf(i))].off

\* C17 as stated: after open_stream_out and after each successful flush,
\* last_head of stream i is the offset of the last header written for it.
C17_LastHeadIsHeader ==
  (pc = "out" /\ ~faulted) =>
    \A i \in Streams : w.si.s[i].last_head = LastHeader(i)

\* C17 amended: after open_stream_out and after each successful flush,
\* last_head of stream i is 9 more than the offset of the last header written
\* for it (13 i + 9 before its first flush): the offset of that header's
\* next_head field, which the next flush of the stream overwrites.
C17_LastHeadIsSlot ==
  (pc = "out" /\ ~faulted) =>
    \A i \in Streams : w.si.s[i].last_head = LastHeader(i) + NextOff

\* two streams, one that has flushed once and one that never has
C17_Witness ==
  /\ pc = "out" /\ ~faulted /\ cfg.n = 2
  /\ Len(ChunksOf(0)) = 0 /\ Len(ChunksOf(1)) = 1
  /\ w.si.s[1].last_head = w.log[1].off + NextOff
  /\ w.si.s[0].last_head = NextOff

\* C19: at every operation boundary of a write session, a failed write_stream
\* included, a stream whose buf is allocated has buflen <= the allocated size
\* of buf, and no flush has read past the end of a buffer.
C19_BufferHoldsBuflen ==
  pc = "out" =>
    /\ \A i \in Streams :
         w.heap.buf[i] => w.si.s[i].buflen <= w.si.s[i].buf.cap
    /\ ~w.ub

\* C20: cur_pos never wraps: a flush that would move cur_pos past 2^32 - 1
\* returns -1, so over a write session cur_pos never decreases (as an
\* unsigned 32-bit number).
C20_NoWrap ==
  [][pc = "out" => (ULeq(w.si.cur_pos, w'.si.cur_pos) \/ last'.ret = -1)]_vars

\* the header open_stream_in read for stream i, << >> when the file ends
\* before its last byte
InitialHeader(i) == HeaderAt(w.si.initial_pos + HeaderLen * i)

\* C12: open_stream_in validates every initial header: when the header read
\* for some stream has c_type other than 3, c_len other than 0 or u_len other
\* than 0, or cannot be read in full, it returns NULL; and when it returns a
\* session total_read is 13 N.
C12_HeadersValidated ==
  last.op = "open_in" =>
    /\ (\E i \in Streams : InitialHeader(i) # << CTYPE_NONE, 0, 0 >>) => pc # "in"
    /\ pc = "in" => w.si.total_read = HeaderLen * cfg.n

\* the header of stream 1 states a u_len of 1 and the file was refused
C12_Witness ==
  /\ last.op = "open_in" /\ ~faulted /\ pc = "done" /\ cfg.n = 2
  /\ HeaderAt(0) = << CTYPE_NONE, 0, 0 >>
  /\ HeaderAt(HeaderLen) = << CTYPE_NONE, 0, 1 >>

\* C13: fill_buffer never stores payload past the end of the buffer it
\* allocated, whatever header it reads.
C13_FillWithinBuffer ==
  last.op = "read_stream" => ~w.ub

\* C14: a read_stream that has to fill its buffer from a chunk whose header
\* has c_type 3 and c_len other than u_len returns -1.
C14_RawLengthsAgree ==
  [][(pc = "in" /\ last'.op = "read_stream"
        /\ w.si.s[last'.i].bufp = w.si.s[last'.i].buflen
        /\ HeaderAt(w.si.initial_pos + w.si.s[last'.i].last_head) # << >>
        /\ HeaderAt(w.si.initial_pos + w.si.s[last'.i].last_head)[1] = CTYPE_NONE
        /\ HeaderAt(w.si.initial_pos + w.si.s[last'.i].last_head)[2]
             # HeaderAt(w.si.initial_pos + w.si.s[last'.i].last_head)[3])
       => last'.ret = -1]_vars

\* C18: in a read session every stream has 0 <= bufp <= buflen, and every
\* read_stream comes to an end.
C18_CursorInBuffer ==
  pc = "in" =>
    /\ \A i \in Streams :
         0 <= w.si.s[i].bufp /\ w.si.s[i].bufp <= w.si.s[i].buflen
    /\ ~w.hang

====
